---- MODULE Spec2Model ----
(***************************************************************************)
(* A model of xlsxDiff.py: the alignment of rows and columns of two        *)
(* worksheets, the classification of every output cell, the character      *)
(* diff of modified cells, the header highlighting and the main loop over  *)
(* the tab names of the two workbooks.                                     *)
(*                                                                         *)
(* Text is a sequence of one-character strings (<<"a", "b">> is "ab"), so  *)
(* that slicing and concatenation are computed, not assumed.  Indices of   *)
(* rows, columns, list elements and characters are 0-based as in the       *)
(* program; worksheet coordinates passed to cell() are 1-based.            *)
(***************************************************************************)
EXTENDS Integers, Sequences, FiniteSets, TLC

VARIABLES
    pc,                              \* where the program is
    args,                            \* the parsed command line flags
    list1, list2, return_indexes,    \* compare_2_lists_and_give_indexes_with_enumerator: arguments, result
    cell_call, cell_result,          \* one call of compare_cell: arguments, result
    input1, input2,                  \* the workbooks in the files args.input1 and args.input2
    icolumns, irows,                 \* tab name -> designated index columns (letters) / index rows (numbers)
    i1_wb, i2_wb,                    \* the two input workbooks as loaded, enlarged by the reads
    tab_names_dict,                  \* tab name -> {1}, {2} or {1, 2}, in insertion order
    warnings,                        \* the tab names a warning was printed for
    o_wb,                            \* the output worksheets, in the order add_worksheet made them
    tabs_done,                       \* how many keys of tab_names_dict the main loop has finished
    row_ranges_list, column_ranges_list,    \* compare_tab: the two alignments
    col_pos, row_pos,                \* compare_tab: position of the two nested loops in them
    modified_rows, modified_cols,    \* compare_tab: the sets get_format fills and reads
    is_data_in_tab_modified          \* compare_tab: a compare_cell call returned True

align_vars == <<list1, list2, return_indexes>>

cell_vars == <<cell_call, cell_result>>

file_vars == <<input1, input2>>

book_vars == <<icolumns, irows, i1_wb, i2_wb, tab_names_dict, warnings, o_wb, tabs_done>>

tab_vars == <<row_ranges_list, column_ranges_list, col_pos, row_pos, modified_rows, modified_cols,
              is_data_in_tab_modified>>

vars == <<pc, args, align_vars, cell_vars, file_vars, book_vars, tab_vars>>

\* ------------------------------------------------------------------ bounds

\* longest key list handed to the aligner on its own
MaxKeys == 4

\* longest text of a cell handed to compare_cell on its own
MaxLen == 3

\* most rows and most columns of an input worksheet handed to compare_tab
MaxRows == 2

MaxCols == 2

\* most non-empty cells of such a worksheet
MaxFilled == 1

\* most worksheets of a workbook handed to the main loop
MaxSheets == 2

\* ------------------------------------------------------------------ helpers

Max2(x, y) == IF x >= y THEN x ELSE y

Min2(x, y) == IF x <= y THEN x ELSE y

\* python range(lo, hi) as a sequence
Range(lo, hi) == [k \in 1..(hi - lo) |-> lo + k - 1]

\* python s[lo:hi] for 0 <= lo <= hi <= len(s)
Slice(s, lo, hi) == [k \in 1..(hi - lo) |-> s[lo + k]]

\* python list(reversed(s))
Reversed(s) == [k \in 1..Len(s) |-> s[Len(s) + 1 - k]]

\* all sequences over S of length lo..hi
SeqsOf(S, lo, hi) == UNION {[1..n -> S] : n \in lo..hi}

RECURSIVE Flatten(_)
Flatten(ss) == IF ss = <<>> THEN <<>> ELSE Head(ss) \o Flatten(Tail(ss))

\* ------------------------------------------------------------------ difflib.SequenceMatcher
\* SequenceMatcher(None, a, b): no junk predicate; the automatic junk heuristic
\* only applies to sequences of 200 or more elements, beyond every bound here.

\* length of the common run of a[i:ahi] and b[j:bhi]
RECURSIVE MatchLen(_, _, _, _, _, _)
MatchLen(a, b, i, j, ahi, bhi) ==
    IF i < ahi /\ j < bhi /\ a[i + 1] = b[j + 1]
    THEN 1 + MatchLen(a, b, i + 1, j + 1, ahi, bhi)
    ELSE 0

\* find_longest_match: the longest block a[i:i+k] = b[j:j+k] inside a[alo:ahi],
\* b[blo:bhi]; of the longest, the one starting earliest in a, and of those the
\* one starting earliest in b; (alo, blo, 0) when nothing matches.
find_longest_match(a, b, alo, ahi, blo, bhi) ==
    LET cand == {<<i, j>> \in (alo..(ahi - 1)) \X (blo..(bhi - 1)) : a[i + 1] = b[j + 1]}
    IN  IF cand = {} THEN <<alo, blo, 0>>
        ELSE
        LET len(p) == MatchLen(a, b, p[1], p[2], ahi, bhi)
            best == CHOOSE p \in cand : \A q \in cand :
                        \/ len(p) > len(q)
                        \/ /\ len(p) = len(q)
                           /\ \/ p[1] < q[1]
                              \/ p[1] = q[1] /\ p[2] <= q[2]
        IN  <<best[1], best[2], len(best)>>

\* get_matching_blocks without its final sentinel: the longest match, then
\* recursively the pieces to its left and to its right, in increasing order
RECURSIVE MatchingBlocks(_, _, _, _, _, _)
MatchingBlocks(a, b, alo, ahi, blo, bhi) ==
    LET m == find_longest_match(a, b, alo, ahi, blo, bhi)
        i == m[1]
        j == m[2]
        k == m[3]
    IN  IF k = 0 THEN <<>>
        ELSE (IF alo < i /\ blo < j THEN MatchingBlocks(a, b, alo, i, blo, j) ELSE <<>>)
             \o <<m>>
             \o (IF i + k < ahi /\ j + k < bhi
                 THEN MatchingBlocks(a, b, i + k, ahi, j + k, bhi) ELSE <<>>)

\* get_matching_blocks: the blocks followed by the sentinel (len(a), len(b), 0)
get_matching_blocks(a, b) ==
    MatchingBlocks(a, b, 0, Len(a), 0, Len(b)) \o << <<Len(a), Len(b), 0>> >>

\* get_opcodes: walk the matching blocks; the gap before a block is a replace,
\* delete or insert, the block itself (when not empty) an equal
RECURSIVE OpcodesFrom(_, _, _, _)
OpcodesFrom(blocks, n, i, j) ==
    IF n > Len(blocks) THEN <<>>
    ELSE
    LET ai == blocks[n][1]
        bj == blocks[n][2]
        size == blocks[n][3]
        tag == IF i < ai /\ j < bj THEN "replace"
               ELSE IF i < ai THEN "delete"
               ELSE IF j < bj THEN "insert"
               ELSE ""
        gap == IF tag = "" THEN <<>> ELSE << <<tag, i, ai, j, bj>> >>
        eq == IF size > 0 THEN << <<"equal", ai, ai + size, bj, bj + size>> >> ELSE <<>>
    IN  gap \o eq \o OpcodesFrom(blocks, n + 1, ai + size, bj + size)

get_opcodes(a, b) == OpcodesFrom(get_matching_blocks(a, b), 1, 0, 0)

\* ------------------------------------------------------------------ compare_2_lists_and_give_indexes_with_enumerator

\* OpcodeIndexes with the second loop of the replace branch forgotten
OpcodeIndexesNoInsert(op) ==
    LET tag == op[1]
        i1 == op[2]
        i2 == op[3]
        j1 == op[4]
        j2 == op[5]
        dels == [k \in 1..(i2 - i1) |-> <<i1 + k - 1, -1>>]
        inss == [k \in 1..(j2 - j1) |-> <<-1, j1 + k - 1>>]
    IN  IF tag = "equal"
        THEN [k \in 1..Min2(i2 - i1, j2 - j1) |-> <<i1 + k - 1, j1 + k - 1>>]
        ELSE IF tag = "delete" THEN dels
        ELSE IF tag = "insert" THEN inss
        ELSE IF tag = "replace" THEN dels
        ELSE <<>>

\* OpcodeIndexes with the two loops of the replace branch in the other order
OpcodeIndexesInsertFirst(op) ==
    LET tag == op[1]
        i1 == op[2]
        i2 == op[3]
        j1 == op[4]
        j2 == op[5]
        dels == [k \in 1..(i2 - i1) |-> <<i1 + k - 1, -1>>]
        inss == [k \in 1..(j2 - j1) |-> <<-1, j1 + k - 1>>]
    IN  IF tag = "equal"
        THEN [k \in 1..Min2(i2 - i1, j2 - j1) |-> <<i1 + k - 1, j1 + k - 1>>]
        ELSE IF tag = "delete" THEN dels
        ELSE IF tag = "insert" THEN inss
        ELSE IF tag = "replace" THEN inss \o dels
        ELSE <<>>

\* the [i, j] pairs one opcode appends to alternated_indexes
OpcodeIndexes(op) ==
    LET tag == op[1]
        i1 == op[2]
        i2 == op[3]
        j1 == op[4]
        j2 == op[5]
        dels == [k \in 1..(i2 - i1) |-> <<i1 + k - 1, -1>>]
        inss == [k \in 1..(j2 - j1) |-> <<-1, j1 + k - 1>>]
    IN  IF tag = "equal"
        THEN [k \in 1..Min2(i2 - i1, j2 - j1) |-> <<i1 + k - 1, j1 + k - 1>>]
        ELSE IF tag = "delete" THEN dels
        ELSE IF tag = "insert" THEN inss
        ELSE IF tag = "replace" THEN dels \o inss
        ELSE <<>>

AlternatedIndexes(l1, l2) ==
    LET ops == get_opcodes(l1, l2)
    IN  Flatten([n \in 1..Len(ops) |-> OpcodeIndexes(ops[n])])

\* enumerate() numbers the pairs from 0 and insert(0, ...) reverses them:
\* the result is [output index, index in list1, index in list2], highest first
compare_2_lists_and_give_indexes_with_enumerator(l1, l2) ==
    LET alt == AlternatedIndexes(l1, l2)
        n == Len(alt)
    IN  [k \in 1..n |-> <<n - k, alt[n - k + 1][1], alt[n - k + 1][2]>>]

\* ------------------------------------------------------------------ cell values and worksheets

\* a cell value as openpyxl hands it over: None, a str or an int
None == [kind |-> "none", s |-> <<>>, n |-> 0]

StrValue(t) == [kind |-> "str", s |-> t, n |-> 0]

IntValue(k) == [kind |-> "int", s |-> <<>>, n |-> k]

Digits == <<"0", "1", "2", "3", "4", "5", "6", "7", "8", "9">>

\* str(k) of an int k >= 0
RECURSIVE IntToStr(_)
IntToStr(k) ==
    IF k < 10 THEN <<Digits[k + 1]>>
    ELSE IntToStr(k \div 10) \o <<Digits[(k % 10) + 1]>>

\* "" if v is None else str(v)
ToText(v) ==
    IF v.kind = "none" THEN <<>>
    ELSE IF v.kind = "int" THEN IntToStr(v.n)
    ELSE v.s

\* A worksheet: max_row, max_column and the values of its cells.  ws.cell(r, c)
\* creates the cell when it does not exist yet, so a read beyond the sheet
\* returns None and enlarges max_row / max_column.
CellOf(ws, r, c) ==
    IF r <= ws.max_row /\ c <= ws.max_column THEN ws.cells[<<r, c>>] ELSE None

Touch(ws, r, c) ==
    IF r <= ws.max_row /\ c <= ws.max_column THEN ws
    ELSE LET nr == Max2(ws.max_row, r)
             nc == Max2(ws.max_column, c)
         IN  [ws EXCEPT !.max_row = nr, !.max_column = nc,
                        !.cells = [p \in (1..nr) \X (1..nc) |-> CellOf(ws, p[1], p[2])]]

\* every worksheet of rows x cols cells with values in V
Worksheets(rows, cols, V) ==
    UNION {{[max_row |-> r, max_column |-> c, cells |-> f] :
               f \in [(1..r) \X (1..c) -> V]} : <<r, c>> \in rows \X cols}

\* ------------------------------------------------------------------ get_format

NoFormat == "None"

\* get_format with the test for a header cell ahead of the update of the sets
get_format_test_first(row, column, modified_rows_set, modified_columns_set, f_do_nothing, f_highlight, do_update_modified_columns_rows_sets, column_row_added_deleted_format) ==
    LET rows == IF do_update_modified_columns_rows_sets
                THEN modified_rows_set \cup {row} ELSE modified_rows_set
        cols == IF do_update_modified_columns_rows_sets
                THEN modified_columns_set \cup {column} ELSE modified_columns_set
        fmt == IF (column = 0 /\ row \in modified_rows_set) \/ (row = 0 /\ column \in modified_columns_set)
               THEN f_highlight
               ELSE IF column_row_added_deleted_format # NoFormat
                       /\ args.no_highlight_added_removed
               THEN column_row_added_deleted_format
               ELSE f_do_nothing
    IN  [format |-> fmt, modified_rows |-> rows, modified_cols |-> cols]

\* the format of a cell, and the sets of modified rows and columns it updates
get_format(row, column, modified_rows_set, modified_columns_set, f_do_nothing, f_highlight, do_update_modified_columns_rows_sets, column_row_added_deleted_format) ==
    LET rows == IF do_update_modified_columns_rows_sets
                THEN modified_rows_set \cup {row} ELSE modified_rows_set
        cols == IF do_update_modified_columns_rows_sets
                THEN modified_columns_set \cup {column} ELSE modified_columns_set
        fmt == IF (column = 0 /\ row \in rows) \/ (row = 0 /\ column \in cols)
               THEN f_highlight
               ELSE IF column_row_added_deleted_format # NoFormat
                       /\ args.no_highlight_added_removed
               THEN column_row_added_deleted_format
               ELSE f_do_nothing
    IN  [format |-> fmt, modified_rows |-> rows, modified_cols |-> cols]

\* ------------------------------------------------------------------ compare_cell

\* the items of rich_text: a format, or a piece of text
FormatItem(f) == [kind |-> "format", format |-> f, text |-> <<>>]

TextItem(t) == [kind |-> "text", format |-> "", text |-> t]

\* RichItems with the two halves of a replace emitted in the wrong order
RichItemsAddedFirst(op, v1, v2) ==
    LET tag == op[1]
        old == Slice(v1, op[2], op[3])
        new == Slice(v2, op[4], op[5])
    IN  IF tag = "equal" THEN <<TextItem(old)>>
        ELSE IF tag = "delete" THEN <<FormatItem("f_removed"), TextItem(old)>>
        ELSE IF tag = "insert" THEN <<FormatItem("f_added"), TextItem(new)>>
        ELSE IF tag = "replace"
        THEN <<FormatItem("f_added"), TextItem(new), FormatItem("f_removed"), TextItem(old)>>
        ELSE <<>>

\* what one opcode of the character diff appends to rich_text
RichItems(op, v1, v2) ==
    LET tag == op[1]
        old == Slice(v1, op[2], op[3])
        new == Slice(v2, op[4], op[5])
    IN  IF tag = "equal" THEN <<TextItem(old)>>
        ELSE IF tag = "delete" THEN <<FormatItem("f_removed"), TextItem(old)>>
        ELSE IF tag = "insert" THEN <<FormatItem("f_added"), TextItem(new)>>
        ELSE IF tag = "replace"
        THEN <<FormatItem("f_removed"), TextItem(old), FormatItem("f_added"), TextItem(new)>>
        ELSE <<>>

RichText(v1, v2) ==
    LET ops == get_opcodes(v1, v2)
    IN  Flatten([n \in 1..Len(ops) |-> RichItems(ops[n], v1, v2)])

\* str(rich_text) of a list that holds text only
RECURSIVE ListRepr(_)
ListRepr(items) ==
    IF items = <<>> THEN <<>>
    ELSE <<"'">> \o Head(items).text \o <<"'">>
         \o (IF Len(items) > 1 THEN <<",", " ">> ELSE <<>>) \o ListRepr(Tail(items))

Write(o_r, o_c, value, fmt) ==
    [op |-> "write", row |-> o_r, col |-> o_c, value |-> value, format |-> fmt]

WriteRichString(o_r, o_c, items, fmt) ==
    [op |-> "write_rich_string", row |-> o_r, col |-> o_c, value |-> items, format |-> fmt]

\* the detailed comparison of two different, non-empty texts
CompareInDetail(o_r, o_c, v1, v2, m_rows, m_cols) ==
    LET rich_text == RichText(v1, v2)
        is_output_rich_string == \E n \in 1..Len(rich_text) : rich_text[n].kind = "format"
        g == get_format(o_r, o_c, m_rows, m_cols, "f_simple", "f_modified_cell",
                        args.highlight, NoFormat)
    IN  IF is_output_rich_string
        THEN [ret |-> TRUE, category |-> "Modified",
              writes |-> <<WriteRichString(o_r, o_c, rich_text, g.format)>>,
              modified_rows |-> g.modified_rows, modified_cols |-> g.modified_cols]
        ELSE [ret |-> FALSE, category |-> "Undiffed",
              writes |-> <<Write(o_r, o_c, <<"[">> \o ListRepr(rich_text) \o <<"]">>, g.format)>>,
              modified_rows |-> g.modified_rows, modified_cols |-> g.modified_cols]

\* one write with the format get_format picks
Emit(o_r, o_c, value, m_rows, m_cols, f_do_nothing, f_highlight, do_update, structural_format, ret, category) ==
    LET g == get_format(o_r, o_c, m_rows, m_cols, f_do_nothing, f_highlight,
                        do_update, structural_format)
    IN  [ret |-> ret, category |-> category,
         writes |-> <<Write(o_r, o_c, value, g.format)>>,
         modified_rows |-> g.modified_rows, modified_cols |-> g.modified_cols]

\* Branch with the test for an added row or column ahead of the test for a
\* crossing of an added with a removed one
BranchAddedFirst(v1, v2, i1_r, i1_c, i2_r, i2_c) ==
    IF v1 = <<>> /\ v2 = <<>> /\ i1_r >= 0 /\ i1_c >= 0 /\ i2_r >= 0 /\ i2_c >= 0
    THEN "UnchangedEmpty"
    ELSE IF v1 = v2 /\ i1_r >= 0 /\ i1_c >= 0 /\ i2_r >= 0 /\ i2_c >= 0
    THEN "Unchanged"
    ELSE IF i1_c = -1 \/ i1_r = -1
    THEN "AddedStructural"
    ELSE IF (i1_c = -1 /\ i2_r = -1) \/ (i1_r = -1 /\ i2_c = -1)
    THEN "Synthetic"
    ELSE IF i2_c = -1 \/ i2_r = -1
    THEN "RemovedStructural"
    ELSE IF v1 = <<>>
    THEN "AddedValue"
    ELSE IF v2 = <<>>
    THEN "RemovedValue"
    ELSE "Detail"

\* Branch without the test for two equal, non-empty texts
BranchWithoutEqual(v1, v2, i1_r, i1_c, i2_r, i2_c) ==
    IF v1 = <<>> /\ v2 = <<>> /\ i1_r >= 0 /\ i1_c >= 0 /\ i2_r >= 0 /\ i2_c >= 0
    THEN "UnchangedEmpty"
    ELSE IF (i1_c = -1 /\ i2_r = -1) \/ (i1_r = -1 /\ i2_c = -1)
    THEN "Synthetic"
    ELSE IF i1_c = -1 \/ i1_r = -1
    THEN "AddedStructural"
    ELSE IF i2_c = -1 \/ i2_r = -1
    THEN "RemovedStructural"
    ELSE IF v1 = <<>>
    THEN "AddedValue"
    ELSE IF v2 = <<>>
    THEN "RemovedValue"
    ELSE "Detail"

\* Branch without the test for two empty texts
BranchWithoutEmpty(v1, v2, i1_r, i1_c, i2_r, i2_c) ==
    IF v1 = v2 /\ i1_r >= 0 /\ i1_c >= 0 /\ i2_r >= 0 /\ i2_c >= 0
    THEN "Unchanged"
    ELSE IF (i1_c = -1 /\ i2_r = -1) \/ (i1_r = -1 /\ i2_c = -1)
    THEN "Synthetic"
    ELSE IF i1_c = -1 \/ i1_r = -1
    THEN "AddedStructural"
    ELSE IF i2_c = -1 \/ i2_r = -1
    THEN "RemovedStructural"
    ELSE IF v1 = <<>>
    THEN "AddedValue"
    ELSE IF v2 = <<>>
    THEN "RemovedValue"
    ELSE "Detail"

\* the if / elif chain of compare_cell: the first branch whose condition holds
Branch(v1, v2, i1_r, i1_c, i2_r, i2_c) ==
    IF v1 = <<>> /\ v2 = <<>> /\ i1_r >= 0 /\ i1_c >= 0 /\ i2_r >= 0 /\ i2_c >= 0
    THEN "UnchangedEmpty"
    ELSE IF v1 = v2 /\ i1_r >= 0 /\ i1_c >= 0 /\ i2_r >= 0 /\ i2_c >= 0
    THEN "Unchanged"
    ELSE IF (i1_c = -1 /\ i2_r = -1) \/ (i1_r = -1 /\ i2_c = -1)
    THEN "Synthetic"
    ELSE IF i1_c = -1 \/ i1_r = -1
    THEN "AddedStructural"
    ELSE IF i2_c = -1 \/ i2_r = -1
    THEN "RemovedStructural"
    ELSE IF v1 = <<>>
    THEN "AddedValue"
    ELSE IF v2 = <<>>
    THEN "RemovedValue"
    ELSE "Detail"

\* compare_cell: the return value, the writes to the output worksheet, the
\* updated sets of modified rows and columns and the (read, hence possibly
\* enlarged) input worksheets; category names the branch taken
compare_cell(o_r, o_c, in1_ws, i1_r, i1_c, in2_ws, i2_r, i2_c, m_rows, m_cols) ==
    LET absent1 == i1_r = -1 \/ i1_c = -1
        absent2 == i2_r = -1 \/ i2_c = -1
        v1 == IF absent1 THEN <<>> ELSE ToText(CellOf(in1_ws, i1_r + 1, i1_c + 1))
        v2 == IF absent2 THEN <<>> ELSE ToText(CellOf(in2_ws, i2_r + 1, i2_c + 1))
        ws1 == IF absent1 THEN in1_ws ELSE Touch(in1_ws, i1_r + 1, i1_c + 1)
        ws2 == IF absent2 THEN in2_ws ELSE Touch(in2_ws, i2_r + 1, i2_c + 1)
        branch == Branch(v1, v2, i1_r, i1_c, i2_r, i2_c)
        res ==
            IF branch = "UnchangedEmpty"
            THEN IF args.noempty
                 THEN [ret |-> FALSE, category |-> branch, writes |-> <<>>,
                       modified_rows |-> m_rows, modified_cols |-> m_cols]
                 ELSE Emit(o_r, o_c, v2, m_rows, m_cols,
                           "f_equal_cell", "f_equal_cell_modified", FALSE, NoFormat, FALSE, branch)
            ELSE IF branch = "Unchanged"
            THEN Emit(o_r, o_c, v1, m_rows, m_cols,
                      "f_equal_cell", "f_equal_cell_modified", FALSE, NoFormat, FALSE, branch)
            ELSE IF branch = "Synthetic"
            THEN Emit(o_r, o_c, <<>>, m_rows, m_cols,
                      "f_equal_cell", "f_equal_cell_modified", FALSE, NoFormat, FALSE, branch)
            ELSE IF branch = "AddedStructural"
            THEN Emit(o_r, o_c, v2, m_rows, m_cols,
                      "f_added", "f_added_cell_modified", args.highlight,
                      "f_added_cell_highlight", TRUE, branch)
            ELSE IF branch = "RemovedStructural"
            THEN Emit(o_r, o_c, v1, m_rows, m_cols,
                      "f_removed", "f_removed_cell_modified", args.highlight,
                      "f_removed_cell_highlight", TRUE, branch)
            ELSE IF branch = "AddedValue"
            THEN Emit(o_r, o_c, v2, m_rows, m_cols,
                      "f_added", "f_added_cell_modified", args.highlight, NoFormat, TRUE, branch)
            ELSE IF branch = "RemovedValue"
            THEN Emit(o_r, o_c, v1, m_rows, m_cols,
                      "f_removed", "f_removed_cell_modified", args.highlight, NoFormat, TRUE, branch)
            ELSE CompareInDetail(o_r, o_c, v1, v2, m_rows, m_cols)
    IN  [ret |-> res.ret, category |-> res.category, writes |-> res.writes,
         modified_rows |-> res.modified_rows, modified_cols |-> res.modified_cols,
         in1_ws |-> ws1, in2_ws |-> ws2]

\* ------------------------------------------------------------------ flags and idle values

Flags == [noempty : BOOLEAN, highlight : BOOLEAN, no_highlight_added_removed : BOOLEAN,
          autofilter : BOOLEAN, quiet : BOOLEAN]

DefaultArgs == [noempty |-> FALSE, highlight |-> FALSE, no_highlight_added_removed |-> TRUE,
                autofilter |-> FALSE, quiet |-> FALSE]

NoCall == [o_r |-> 0, o_c |-> 0, i1_r |-> 0, i1_c |-> 0, i2_r |-> 0, i2_c |-> 0,
           in1_ws |-> [max_row |-> 1, max_column |-> 1, cells |-> [p \in {<<1, 1>>} |-> None]],
           in2_ws |-> [max_row |-> 1, max_column |-> 1, cells |-> [p \in {<<1, 1>>} |-> None]]]

NoResult == [ret |-> FALSE, category |-> "", writes |-> <<>>, modified_rows |-> {},
             modified_cols |-> {}, in1_ws |-> NoCall.in1_ws, in2_ws |-> NoCall.in2_ws]

\* ------------------------------------------------------------------ row_ranges, column_ranges

Letters == <<"A", "B", "C", "D">>

\* openpyxl.utils.column_index_from_string for the one-letter columns
column_index_from_string(col) == CHOOSE n \in 1..Len(Letters) : Letters[n] = col

\* s + "|" if v is None else s + "|" + str(v)
AppendKey(s, v) == s \o <<"|">> \o ToText(v)

\* the key of a row: the values of its cells in the index columns, each after a "|"
RECURSIVE RowKey(_, _, _, _)
RowKey(ws, row, cols, n) ==
    IF n = 0 THEN <<>>
    ELSE AppendKey(RowKey(ws, row, cols, n - 1),
                   CellOf(ws, row + 1, column_index_from_string(cols[n])))

\* the key of a column: the values of its cells in the index rows
RECURSIVE ColumnKey(_, _, _, _)
ColumnKey(ws, col, rows, n) ==
    IF n = 0 THEN <<>>
    ELSE AppendKey(ColumnKey(ws, col, rows, n - 1), CellOf(ws, rows[n], col + 1))

\* the largest element of a non-empty sequence of numbers
RECURSIVE MaxOf(_, _)
MaxOf(q, n) == IF n = 1 THEN q[1] ELSE Max2(q[n], MaxOf(q, n - 1))

\* [[i, i, i] for i in range(n - 1, -1, -1)]
Positional(n) == [k \in 1..n |-> <<n - k, n - k, n - k>>]

\* row_ranges: the alignment of the rows, and the two worksheets after the
\* reads of the index columns (rows 1..max(max1, max2) of both)
row_ranges(tab_key, i1_ws, i2_ws) ==
    LET max1 == i1_ws.max_row
        max2 == i2_ws.max_row
    IN  IF tab_key \in DOMAIN icolumns
        THEN LET cols == icolumns[tab_key]
                 data1 == [k \in 1..max1 |-> RowKey(i1_ws, k - 1, cols, Len(cols))]
                 data2 == [k \in 1..max2 |-> RowKey(i2_ws, k - 1, cols, Len(cols))]
                 last == MaxOf([n \in 1..Len(cols) |-> column_index_from_string(cols[n])], Len(cols))
             IN  [list |-> compare_2_lists_and_give_indexes_with_enumerator(data1, data2),
                  i1_ws |-> Touch(i1_ws, Max2(max1, max2), last),
                  i2_ws |-> Touch(i2_ws, Max2(max1, max2), last)]
        ELSE [list |-> Positional(Max2(max1, max2)), i1_ws |-> i1_ws, i2_ws |-> i2_ws]

\* column_ranges: the same for the columns, with the index rows
column_ranges(tab_key, i1_ws, i2_ws) ==
    LET max1 == i1_ws.max_column
        max2 == i2_ws.max_column
    IN  IF tab_key \in DOMAIN irows
        THEN LET rows == irows[tab_key]
                 data1 == [k \in 1..max1 |-> ColumnKey(i1_ws, k - 1, rows, Len(rows))]
                 data2 == [k \in 1..max2 |-> ColumnKey(i2_ws, k - 1, rows, Len(rows))]
                 last == MaxOf(rows, Len(rows))
             IN  [list |-> compare_2_lists_and_give_indexes_with_enumerator(data1, data2),
                  i1_ws |-> Touch(i1_ws, last, Max2(max1, max2)),
                  i2_ws |-> Touch(i2_ws, last, Max2(max1, max2))]
        ELSE [list |-> Positional(Max2(max1, max2)), i1_ws |-> i1_ws, i2_ws |-> i2_ws]

\* ------------------------------------------------------------------ the output workbook

NoFilter == [set |-> FALSE, first_row |-> 0, first_col |-> 0, last_row |-> 0, last_col |-> 0]

\* o_wb.add_worksheet(name): writes are the write / write_rich_string calls in
\* order, columns the set_column calls, cells the category compare_cell gave
\* each coordinate it was called for
add_worksheet(name) ==
    [name |-> name, writes |-> <<>>, columns |-> <<>>, cells |-> <<>>,
     tab_color |-> "", autofilter |-> NoFilter]

\* the minimum width compare_tab gives an output column
MinWidth == 2

\* ------------------------------------------------------------------ clone_tab

\* the writes of clone_tab: columns from the last to the first, rows likewise
CloneWrites(i_ws, text_format) ==
    LET nr == i_ws.max_row
        nc == i_ws.max_column
    IN  [k \in 1..(nr * nc) |->
            LET c == nc - 1 - ((k - 1) \div nr)
                r == nr - 1 - ((k - 1) % nr)
            IN  Write(r, c, ToText(CellOf(i_ws, r + 1, c + 1)), text_format)]

clone_tab(out_ws, i_ws, operation_type) ==
    LET tab_color == IF operation_type = "added" THEN "blue"
                     ELSE IF operation_type = "removed" THEN "red" ELSE ""
        text_format == IF operation_type = "added" THEN "f_added"
                       ELSE IF operation_type = "removed" THEN "f_removed" ELSE NoFormat
    IN  [out_ws EXCEPT !.writes = CloneWrites(i_ws, text_format),
                       !.columns = [k \in 1..i_ws.max_column |->
                                       [col |-> i_ws.max_column - k, width |-> i_ws.width]],
                       !.tab_color = tab_color]

\* ------------------------------------------------------------------ the main program

TabNames == {"S1", "S2", "S3"}

InSeq(x, q) == \E n \in 1..Len(q) : q[n] = x

\* BuildTabNames with the loops over the two workbooks in the other order
BuildTabNamesFirstWorkbookFirst(names1, names2) ==
    LET only2 == SelectSeq(names2, LAMBDA t : ~InSeq(t, names1))
    IN  [keys |-> names1 \o only2,
         sides |-> [t \in {names2[n] : n \in 1..Len(names2)} \cup {names1[n] : n \in 1..Len(names1)} |->
                       (IF InSeq(t, names1) THEN {1} ELSE {}) \cup (IF InSeq(t, names2) THEN {2} ELSE {})]]

\* tab_names_dict: the tabs of the second workbook first, then those only in the first
BuildTabNames(names1, names2) ==
    LET only1 == SelectSeq(names1, LAMBDA t : ~InSeq(t, names2))
    IN  [keys |-> names2 \o only1,
         sides |-> [t \in {names2[n] : n \in 1..Len(names2)} \cup {names1[n] : n \in 1..Len(names1)} |->
                       (IF InSeq(t, names1) THEN {1} ELSE {}) \cup (IF InSeq(t, names2) THEN {2} ELSE {})]]

\* lines 393-411: load the two workbooks, build tab_names_dict, warn about
\* designated tabs that do not exist
Start ==
    /\ pc = "start"
    /\ i1_wb' = input1
    /\ i2_wb' = input2
    /\ tab_names_dict' = BuildTabNames(input1.sheetnames, input2.sheetnames)
    /\ warnings' = IF args.quiet THEN {}
                   ELSE {t \in (DOMAIN icolumns) \cup (DOMAIN irows) : t \notin DOMAIN tab_names_dict'.sides}
    /\ pc' = "loop"
    /\ UNCHANGED <<args, file_vars, align_vars, cell_vars, icolumns, irows, o_wb, tabs_done, tab_vars>>

current_tab_key == tab_names_dict.keys[tabs_done + 1]

AfterTab == IF tabs_done + 1 = Len(tab_names_dict.keys) THEN "done" ELSE "loop"

\* a tab of one workbook only: add_worksheet and clone_tab
CloneTab ==
    /\ pc = "loop"
    /\ tab_names_dict.sides[current_tab_key] # {1, 2}
    /\ o_wb' = Append(o_wb,
                  IF tab_names_dict.sides[current_tab_key] = {2}
                  THEN clone_tab(add_worksheet(current_tab_key), i2_wb.sheets[current_tab_key], "added")
                  ELSE clone_tab(add_worksheet(current_tab_key), i1_wb.sheets[current_tab_key], "removed"))
    /\ tabs_done' = tabs_done + 1
    /\ pc' = AfterTab
    /\ UNCHANGED <<args, file_vars, align_vars, cell_vars, icolumns, irows, i1_wb, i2_wb, tab_names_dict, warnings, tab_vars>>

\* a tab of both workbooks: add_worksheet, then compare_tab up to its loops
\* (lines 309-314: row_ranges first, column_ranges on the worksheets it leaves)
BeginCompareTab ==
    /\ pc = "loop"
    /\ tab_names_dict.sides[current_tab_key] = {1, 2}
    /\ \E rr \in {row_ranges(current_tab_key, i1_wb.sheets[current_tab_key], i2_wb.sheets[current_tab_key])} :
       \E cr \in {column_ranges(current_tab_key, rr.i1_ws, rr.i2_ws)} :
          /\ row_ranges_list' = rr.list
          /\ column_ranges_list' = cr.list
          /\ i1_wb' = [i1_wb EXCEPT !.sheets[current_tab_key] = cr.i1_ws]
          /\ i2_wb' = [i2_wb EXCEPT !.sheets[current_tab_key] = cr.i2_ws]
    /\ o_wb' = Append(o_wb, add_worksheet(current_tab_key))
    /\ is_data_in_tab_modified' = FALSE
    /\ modified_rows' = {}
    /\ modified_cols' = {}
    /\ col_pos' = 1
    /\ row_pos' = 1
    /\ pc' = "cells"
    /\ UNCHANGED <<args, file_vars, align_vars, cell_vars, icolumns, irows, tab_names_dict, warnings, tabs_done>>

\* max(c1_width, c2_width, 2) of line 319
ColumnWidth(i1_ws, c1, i2_ws, c2) ==
    Max2(Max2(IF c1 >= 0 THEN i1_ws.width ELSE MinWidth, IF c2 >= 0 THEN i2_ws.width ELSE MinWidth),
         MinWidth)

\* one turn of the inner loop of compare_tab (lines 321-328), with set_column
\* (lines 317-319) ahead of the first row of a column
CompareCell ==
    /\ pc = "cells"
    /\ LET col == column_ranges_list[col_pos]
           row == row_ranges_list[row_pos]
           i1_ws == i1_wb.sheets[current_tab_key]
           i2_ws == i2_wb.sheets[current_tab_key]
           out_ws == o_wb[Len(o_wb)]
       IN  \E res \in {compare_cell(row[1], col[1], i1_ws, row[2], col[2], i2_ws, row[3], col[3],
                                    modified_rows, modified_cols)} :
              /\ o_wb' = [o_wb EXCEPT ![Len(o_wb)] =
                            [out_ws EXCEPT
                                !.writes = out_ws.writes \o res.writes,
                                !.columns = IF row_pos = 1
                                            THEN Append(out_ws.columns,
                                                        [col |-> col[1],
                                                         width |-> ColumnWidth(i1_ws, col[2], i2_ws, col[3])])
                                            ELSE out_ws.columns,
                                !.cells = Append(out_ws.cells,
                                                 [row |-> row[1], col |-> col[1],
                                                  category |-> res.category, ret |-> res.ret])]]
              /\ i1_wb' = [i1_wb EXCEPT !.sheets[current_tab_key] = res.in1_ws]
              /\ i2_wb' = [i2_wb EXCEPT !.sheets[current_tab_key] = res.in2_ws]
              /\ modified_rows' = res.modified_rows
              /\ modified_cols' = res.modified_cols
              /\ is_data_in_tab_modified' = (res.ret \/ is_data_in_tab_modified)
    /\ IF row_pos < Len(row_ranges_list)
       THEN /\ row_pos' = row_pos + 1
            /\ col_pos' = col_pos
            /\ pc' = "cells"
       ELSE /\ row_pos' = 1
            /\ col_pos' = col_pos + 1
            /\ pc' = IF col_pos < Len(column_ranges_list) THEN "cells" ELSE "finish"
    /\ UNCHANGED <<args, file_vars, align_vars, cell_vars, icolumns, irows, tab_names_dict, warnings, tabs_done,
                   row_ranges_list, column_ranges_list>>

\* AutofilterLastColumn without the width of the alignment
AutofilterLastColumnOfInputs(i1_ws, i2_ws, ranges) ==
    Max2(i1_ws.max_column, i2_ws.max_column) - 1

\* the last column of the autofilter (line 335)
AutofilterLastColumn(i1_ws, i2_ws, ranges) ==
    Max2(Max2(i1_ws.max_column, i2_ws.max_column), ranges[1][1] + 1) - 1

\* the end of compare_tab (lines 330-335): the gray tab or the autofilter
FinishTab ==
    /\ pc = "finish"
    /\ LET i1_ws == i1_wb.sheets[current_tab_key]
           i2_ws == i2_wb.sheets[current_tab_key]
           out_ws == o_wb[Len(o_wb)]
       IN  o_wb' = [o_wb EXCEPT ![Len(o_wb)] =
                       IF ~is_data_in_tab_modified
                       THEN [out_ws EXCEPT !.tab_color = "gray"]
                       ELSE IF args.autofilter /\ args.highlight
                       THEN [out_ws EXCEPT !.autofilter =
                                [set |-> TRUE, first_row |-> 0, first_col |-> 0, last_row |-> 0,
                                 last_col |-> AutofilterLastColumn(i1_ws, i2_ws, column_ranges_list)]]
                       ELSE out_ws]
    /\ tabs_done' = tabs_done + 1
    /\ pc' = AfterTab
    /\ UNCHANGED <<args, file_vars, align_vars, cell_vars, icolumns, irows, i1_wb, i2_wb, tab_names_dict, warnings, tab_vars>>

Next == Start \/ CloneTab \/ BeginCompareTab \/ CompareCell \/ FinishTab

\* ---- the inputs

TabTexts == {<<"a">>, <<"b">>}

\* the worksheets of up to MaxRows x MaxCols cells of which at most MaxFilled hold a text
TabWorksheets(width) ==
    {[max_row |-> w.max_row, max_column |-> w.max_column, cells |-> w.cells, width |-> width] :
        w \in {x \in Worksheets(1..MaxRows, 1..MaxCols, {None} \cup {StrValue(t) : t \in TabTexts}) :
                  Cardinality({p \in DOMAIN x.cells : x.cells[p] # None}) <= MaxFilled}}

\* no designation, or one for the tabs in S
Designations(S, choices) == {<<>>} \cup {[t \in S |-> q] : q \in choices}

\* no workbook is loaded
NotLoaded == [sheetnames |-> <<>>, sheets |-> <<>>]

NoTabState ==
    /\ i1_wb = NotLoaded
    /\ i2_wb = NotLoaded
    /\ tab_names_dict = [keys |-> <<>>, sides |-> <<>>]
    /\ warnings = {}
    /\ o_wb = <<>>
    /\ tabs_done = 0
    /\ row_ranges_list = <<>>
    /\ column_ranges_list = <<>>
    /\ col_pos = 0
    /\ row_pos = 0
    /\ modified_rows = {}
    /\ modified_cols = {}
    /\ is_data_in_tab_modified = FALSE

\* two workbooks with the one tab S1 each
InitTab ==
    /\ args \in {f \in Flags : ~f.quiet}
    /\ icolumns \in Designations({"S1"}, {<<"A">>, <<"B">>})
    /\ irows \in Designations({"S1"}, {<<1>>, <<2>>})
    /\ \E w1 \in TabWorksheets(1), w2 \in TabWorksheets(13) :
          /\ input1 = [sheetnames |-> <<"S1">>, sheets |-> [t \in {"S1"} |-> w1]]
          /\ input2 = [sheetnames |-> <<"S1">>, sheets |-> [t \in {"S1"} |-> w2]]

\* the sequences of 1..MaxSheets different tab names
SheetNameLists == {q \in SeqsOf(TabNames, 1, MaxSheets) : \A m, n \in 1..Len(q) : q[m] = q[n] => m = n}

OneCell(v, width) == [max_row |-> 1, max_column |-> 1, cells |-> [p \in {<<1, 1>>} |-> v], width |-> width]

\* two workbooks of several one-cell tabs
InitBook ==
    /\ args \in {f \in Flags : ~f.noempty /\ ~f.highlight /\ ~f.autofilter /\ f.no_highlight_added_removed}
    /\ icolumns \in Designations({"S1"}, {<<"A">>}) \cup Designations({"S3"}, {<<"A">>})
    /\ irows \in Designations({"S2"}, {<<1>>})
    /\ \E n1 \in SheetNameLists, n2 \in SheetNameLists, x1 \in {None, StrValue(<<"a">>)}, x2 \in {None, StrValue(<<"a">>)} :
          /\ input1 = [sheetnames |-> n1, sheets |-> [t \in {n1[n] : n \in 1..Len(n1)} |-> OneCell(x1, 1)]]
          /\ input2 = [sheetnames |-> n2, sheets |-> [t \in {n2[n] : n \in 1..Len(n2)} |-> OneCell(x2, 13)]]

Init ==
    /\ pc = "start"
    /\ InitTab \/ InitBook
    /\ NoTabState
    /\ list1 = <<>>
    /\ list2 = <<>>
    /\ return_indexes = <<>>
    /\ cell_call = NoCall
    /\ cell_result = NoResult

Spec == Init /\ [][Next]_vars

\* ------------------------------------------------------------------ the aligner on its own

Keys == {<<"|">>, <<"|", "a">>, <<"|", "b">>}

\* there are no files and no designations
NoBook ==
    /\ icolumns = <<>>
    /\ irows = <<>>
    /\ input1 = NotLoaded
    /\ input2 = NotLoaded
    /\ NoTabState

InitAlign ==
    /\ list1 \in SeqsOf(Keys, 0, MaxKeys)
    /\ list2 \in SeqsOf(Keys, 0, MaxKeys)
    /\ return_indexes = <<>>
    /\ pc = "align"
    /\ args = DefaultArgs
    /\ cell_call = NoCall
    /\ cell_result = NoResult
    /\ NoBook

AlignLists ==
    /\ pc = "align"
    /\ return_indexes' = compare_2_lists_and_give_indexes_with_enumerator(list1, list2)
    /\ pc' = "aligned"
    /\ UNCHANGED <<list1, list2, args, cell_vars, file_vars, book_vars, tab_vars>>

NextAlign == AlignLists

SpecAlign == InitAlign /\ [][NextAlign]_vars

\* ------------------------------------------------------------------ compare_cell on its own

Texts == SeqsOf({"a", "b"}, 0, MaxLen)

CellValues == {None} \cup {StrValue(t) : t \in Texts} \cup {StrValue(<<"1">>), IntValue(1), IntValue(12)}

\* a row (a column) of the output has a real index on at least one side
IndexPairs == {p \in {-1, 0} \X {-1, 0} : p[1] >= 0 \/ p[2] >= 0}

InitCell ==
    /\ args \in {f \in Flags : ~f.autofilter /\ ~f.quiet}
    /\ \E x1 \in CellValues, x2 \in CellValues, rp \in IndexPairs, cp \in IndexPairs, o \in (0..1) \X (0..1) :
          cell_call = [o_r |-> o[1], o_c |-> o[2],
                       i1_r |-> rp[1], i1_c |-> cp[1], i2_r |-> rp[2], i2_c |-> cp[2],
                       in1_ws |-> [max_row |-> 1, max_column |-> 1, cells |-> [p \in {<<1, 1>>} |-> x1]],
                       in2_ws |-> [max_row |-> 1, max_column |-> 1, cells |-> [p \in {<<1, 1>>} |-> x2]]]
    /\ cell_result = NoResult
    /\ pc = "cell"
    /\ list1 = <<>>
    /\ list2 = <<>>
    /\ return_indexes = <<>>
    /\ NoBook

CompareOneCell ==
    /\ pc = "cell"
    /\ cell_result' = compare_cell(cell_call.o_r, cell_call.o_c,
                                   cell_call.in1_ws, cell_call.i1_r, cell_call.i1_c,
                                   cell_call.in2_ws, cell_call.i2_r, cell_call.i2_c, {}, {})
    /\ pc' = "compared"
    /\ UNCHANGED <<args, cell_call, align_vars, file_vars, book_vars, tab_vars>>

NextCell == CompareOneCell

SpecCell == InitCell /\ [][NextCell]_vars

\* ------------------------------------------------------------------ C1: round trip of the character diff

\* the two texts of the call at hand, as compare_cell reads them
CallHasA == cell_call.i1_r >= 0 /\ cell_call.i1_c >= 0

CallHasB == cell_call.i2_r >= 0 /\ cell_call.i2_c >= 0

CallText1 == IF CallHasA THEN ToText(cell_call.in1_ws.cells[<<1, 1>>]) ELSE <<>>

CallText2 == IF CallHasB THEN ToText(cell_call.in2_ws.cells[<<1, 1>>]) ELSE <<>>

\* the style of the text item at position n: the format right before it, if any
StyleAt(items, n) ==
    IF n > 1 /\ items[n - 1].kind = "format" THEN items[n - 1].format ELSE "plain"

\* the texts of the spans with a style in styles, concatenated in order
RECURSIVE JoinSpans(_, _, _)
JoinSpans(items, n, styles) ==
    IF n > Len(items) THEN <<>>
    ELSE (IF items[n].kind = "text" /\ StyleAt(items, n) \in styles THEN items[n].text ELSE <<>>)
         \o JoinSpans(items, n + 1, styles)

ReachesDetail == CallHasA /\ CallHasB /\ CallText1 # <<>> /\ CallText2 # <<>> /\ CallText1 # CallText2

\* C1: for two texts that reach the detailed comparison, the equal and removed
\* spans of the emitted run list, concatenated in order, give the first text and
\* the equal and added spans give the second; every format is followed by its
\* text, and an added span is never directly followed by a removed span (the
\* removed half of a replace comes right before its added half).
C1_RoundTrip ==
    (pc = "compared" /\ ReachesDetail) =>
        /\ Len(cell_result.writes) = 1
        /\ cell_result.writes[1].op = "write_rich_string"
        /\ LET items == cell_result.writes[1].value
           IN  /\ JoinSpans(items, 1, {"plain", "f_removed"}) = CallText1
               /\ JoinSpans(items, 1, {"plain", "f_added"}) = CallText2
               /\ \A n \in 1..Len(items) : items[n].kind = "format" =>
                     /\ items[n].format \in {"f_removed", "f_added"}
                     /\ n < Len(items)
                     /\ items[n + 1].kind = "text"
               /\ \A n \in 1..(Len(items) - 2) :
                     ~(/\ items[n].kind = "format"
                       /\ items[n].format = "f_added"
                       /\ items[n + 2].kind = "format")

\* a run list with a removed span directly followed by an added span and an equal span
C1_Witness ==
    /\ pc = "compared"
    /\ ReachesDetail
    /\ Len(cell_result.writes) = 1
    /\ LET items == cell_result.writes[1].value
       IN  /\ \E n \in 1..Len(items) : items[n].kind = "text" /\ StyleAt(items, n) = "plain"
           /\ \E n \in 1..(Len(items) - 3) :
                 /\ items[n].kind = "format" /\ items[n].format = "f_removed"
                 /\ items[n + 2].kind = "format" /\ items[n + 2].format = "f_added"
                 /\ Len(items[n + 1].text) + Len(items[n + 3].text) >= 3

\* ------------------------------------------------------------------ C2: totality of the alignment

EntriesWithA(i) == {k \in 1..Len(return_indexes) : return_indexes[k][2] = i}

EntriesWithB(j) == {k \in 1..Len(return_indexes) : return_indexes[k][3] = j}

MatchedEntries == {k \in 1..Len(return_indexes) : return_indexes[k][2] >= 0 /\ return_indexes[k][3] >= 0}

\* C2: every index of list1 is in exactly one entry, every index of list2 is in
\* exactly one entry, no entry lacks both, and the output indexes are pairwise
\* distinct and are exactly 0..k-1 for k = n + m - (number of matched pairs).
C2_Totality ==
    pc = "aligned" =>
        LET n == Len(list1)
            m == Len(list2)
            k == n + m - Cardinality(MatchedEntries)
        IN  /\ \A i \in 0..(n - 1) : Cardinality(EntriesWithA(i)) = 1
            /\ \A j \in 0..(m - 1) : Cardinality(EntriesWithB(j)) = 1
            /\ \A e \in 1..Len(return_indexes) :
                  /\ return_indexes[e][2] \in -1..(n - 1)
                  /\ return_indexes[e][3] \in -1..(m - 1)
                  /\ ~(return_indexes[e][2] = -1 /\ return_indexes[e][3] = -1)
            /\ \A e, f \in 1..Len(return_indexes) :
                  return_indexes[e][1] = return_indexes[f][1] => e = f
            /\ {return_indexes[e][1] : e \in 1..Len(return_indexes)} = 0..(k - 1)

\* an alignment with a matched pair, a replaced region and nothing else lost
C2_Witness ==
    /\ pc = "aligned"
    /\ Cardinality(MatchedEntries) >= 2
    /\ \E e \in 1..(Len(return_indexes) - 1) :
          /\ return_indexes[e][2] = -1
          /\ return_indexes[e + 1][3] = -1
    /\ Len(return_indexes) >= 5

\* ------------------------------------------------------------------ C3: the classification is total

CallEmpty1 == cell_call.in1_ws.cells[<<1, 1>>] \in {None, StrValue(<<>>)}

CallEmpty2 == cell_call.in2_ws.cells[<<1, 1>>] \in {None, StrValue(<<>>)}

\* the category section 4.4 gives the coordinate of the call at hand
ExpectedCategory ==
    IF ~CallHasA /\ ~CallHasB THEN "Synthetic"
    ELSE IF CallHasA /\ ~CallHasB THEN "RemovedStructural"
    ELSE IF ~CallHasA /\ CallHasB THEN "AddedStructural"
    ELSE IF CallEmpty1 /\ CallEmpty2 THEN "UnchangedEmpty"
    ELSE IF CallEmpty1 THEN "AddedValue"
    ELSE IF CallEmpty2 THEN "RemovedValue"
    ELSE IF CallText1 = CallText2 THEN "Unchanged"
    ELSE "Modified"

\* C3: compare_cell puts every coordinate in the one category of section 4.4,
\* returns True exactly for Added, Removed and Modified, and emits exactly one
\* write, except for an Unchanged empty cell under noempty, which gets none.
C3_Classification ==
    pc = "compared" =>
        /\ cell_result.category = ExpectedCategory
        /\ cell_result.ret = (ExpectedCategory \in {"AddedStructural", "RemovedStructural",
                                                    "AddedValue", "RemovedValue", "Modified"})
        /\ Len(cell_result.writes) =
              (IF ExpectedCategory = "UnchangedEmpty" /\ args.noempty THEN 0 ELSE 1)
        /\ \A n \in 1..Len(cell_result.writes) :
              /\ cell_result.writes[n].row = cell_call.o_r
              /\ cell_result.writes[n].col = cell_call.o_c
              /\ cell_result.writes[n].op =
                    (IF ExpectedCategory = "Modified" THEN "write_rich_string" ELSE "write")

\* an inserted column crossing a deleted row has been classified
C3_Witness ==
    /\ pc = "compared"
    /\ cell_call.i1_c = -1
    /\ cell_call.i2_r = -1
    /\ ~CallEmpty1
    /\ ~CallEmpty2
    /\ cell_result.category = "Synthetic"
    /\ Len(cell_result.writes) = 1

\* ------------------------------------------------------------------ C4: a sheet against its own copy

\* the tab name is in both workbooks
IsCommon(t) == InSeq(t, input1.sheetnames) /\ InSeq(t, input2.sheetnames)

\* the two worksheets of the files hold the same cells
SameCells(w1, w2) ==
    /\ w1.max_row = w2.max_row
    /\ w1.max_column = w2.max_column
    /\ w1.cells = w2.cells

IsDesignated(t) == t \in (DOMAIN icolumns) \cup (DOMAIN irows)

\* the output worksheets made for a sheet that is compared against its own copy
CopyTabs ==
    {n \in 1..Len(o_wb) :
        /\ IsCommon(o_wb[n].name)
        /\ IsDesignated(o_wb[n].name)
        /\ SameCells(input1.sheets[o_wb[n].name], input2.sheets[o_wb[n].name])}

\* C4: comparing a sheet with an identical copy of itself, with index columns
\* and/or index rows designated for it, matches every row and every column to
\* itself, classifies no cell as Modified, Added or Removed (compare_cell
\* returns False for every coordinate) and leaves the sheet marked gray.
C4_Idempotence ==
    \A n \in CopyTabs :
        /\ \A k \in 1..Len(o_wb[n].cells) :
              /\ o_wb[n].cells[k].category \in {"Unchanged", "UnchangedEmpty"}
              /\ ~o_wb[n].cells[k].ret
        /\ (n = Len(o_wb) /\ pc \in {"cells", "finish"}) =>
              /\ \A k \in 1..Len(row_ranges_list) :
                    row_ranges_list[k][2] = row_ranges_list[k][1] /\ row_ranges_list[k][3] = row_ranges_list[k][1]
              /\ \A k \in 1..Len(column_ranges_list) :
                    column_ranges_list[k][2] = column_ranges_list[k][1]
                    /\ column_ranges_list[k][3] = column_ranges_list[k][1]
              /\ ~is_data_in_tab_modified
        /\ n <= tabs_done =>
              /\ o_wb[n].tab_color = "gray"
              /\ ~o_wb[n].autofilter.set
              /\ Len(o_wb[n].cells) >= 1

\* a sheet of two rows and two columns with a text in it has been compared
\* with its copy, with an index column and an index row designated
C4_Witness ==
    /\ pc = "done"
    /\ CopyTabs # {}
    /\ \E n \in CopyTabs :
          /\ o_wb[n].name \in DOMAIN icolumns
          /\ o_wb[n].name \in DOMAIN irows
          /\ Len(o_wb[n].cells) = 4
          /\ \E k \in 1..4 : o_wb[n].cells[k].category = "Unchanged"
          /\ o_wb[n].tab_color = "gray"

\* ------------------------------------------------------------------ C5: empty sheets under noempty

AllEmpty(ws) == \A p \in DOMAIN ws.cells : ToText(ws.cells[p]) = <<>>

\* the output worksheets made for a sheet that is empty in both files
EmptyTabs ==
    {n \in 1..Len(o_wb) :
        /\ IsCommon(o_wb[n].name)
        /\ AllEmpty(input1.sheets[o_wb[n].name])
        /\ AllEmpty(input2.sheets[o_wb[n].name])}

\* the designated index leaves no row and no column of the tab without a counterpart
SameSizeWhereDesignated(t) ==
    /\ t \in DOMAIN icolumns => input1.sheets[t].max_row = input2.sheets[t].max_row
    /\ t \in DOMAIN irows => input1.sheets[t].max_column = input2.sheets[t].max_column

\* C5 as stated: with noempty, a common sheet that is empty in both inputs gets
\* no write and no write_rich_string at all, whatever the highlighting and the
\* index settings.
C5_Original ==
    args.noempty => \A n \in EmptyTabs : o_wb[n].writes = <<>>

\* C5 amended: with noempty, a common sheet that is empty in both inputs gets
\* no write and no write_rich_string at all, whatever the highlighting, when
\* the two sheets have the same number of rows if index columns are designated
\* for it and the same number of columns if index rows are designated for it.
C5_EmptyIgnore ==
    args.noempty =>
        \A n \in EmptyTabs : SameSizeWhereDesignated(o_wb[n].name) => o_wb[n].writes = <<>>

\* two empty sheets of different sizes have been compared cell by cell under
\* noempty and highlight, with index columns designated, and nothing was written
C5_Witness ==
    /\ pc = "done"
    /\ args.noempty
    /\ args.highlight
    /\ \E n \in EmptyTabs :
          /\ o_wb[n].name \in DOMAIN icolumns
          /\ SameSizeWhereDesignated(o_wb[n].name)
          /\ input1.sheets[o_wb[n].name].max_column # input2.sheets[o_wb[n].name].max_column
          /\ Len(o_wb[n].cells) >= 4
          /\ o_wb[n].writes = <<>>

\* ------------------------------------------------------------------ C6: a row of A without counterpart

\* the output worksheet compare_tab is filling
CurrentTab == o_wb[Len(o_wb)]

\* the write and write_rich_string calls at a coordinate of it
WritesAt(r, c) ==
    {k \in 1..Len(CurrentTab.writes) : CurrentTab.writes[k].row = r /\ CurrentTab.writes[k].col = c}

\* the categories compare_cell gave a coordinate of it
CategoriesAt(r, c) ==
    {CurrentTab.cells[k].category :
        k \in {j \in 1..Len(CurrentTab.cells) : CurrentTab.cells[j].row = r /\ CurrentTab.cells[j].col = c}}

\* the value the first workbook file holds at a 0-based coordinate of the tab
ValueInA(r, c) == ToText(CellOf(input1.sheets[current_tab_key], r + 1, c + 1))

\* the entries of the row alignment for a row of A that has no counterpart in B
RemovedRows == {k \in 1..Len(row_ranges_list) : row_ranges_list[k][2] >= 0 /\ row_ranges_list[k][3] = -1}

\* the entry of the column alignment for output column 0
FirstColumn == column_ranges_list[Len(column_ranges_list)]

RemovedStyles == {"f_removed", "f_removed_cell_highlight", "f_removed_cell_modified"}

\* C6 as stated: with index columns designated, every cell of the output row of
\* a row of A without counterpart in B is Removed with the value of A, and under
\* highlight the cell at output column 0 of that row is written with
\* f_removed_cell_modified, for every column alignment.
C6_Original ==
    (pc = "finish" /\ current_tab_key \in DOMAIN icolumns) =>
        \A k \in RemovedRows :
            LET row == row_ranges_list[k]
            IN  /\ \A j \in 1..Len(column_ranges_list) :
                      LET col == column_ranges_list[j]
                      IN  /\ CategoriesAt(row[1], col[1]) = {"RemovedStructural"}
                          /\ col[2] >= 0
                          /\ Cardinality(WritesAt(row[1], col[1])) = 1
                          /\ \A w \in WritesAt(row[1], col[1]) :
                                /\ CurrentTab.writes[w].value = ValueInA(row[2], col[2])
                                /\ CurrentTab.writes[w].format \in RemovedStyles
                /\ args.highlight =>
                      \A w \in WritesAt(row[1], 0) : CurrentTab.writes[w].format = "f_removed_cell_modified"

\* C6 amended: with index columns designated, in the output row of a row of A
\* without counterpart in B every cell in a column that has a source column in
\* A is Removed with the value of A, and every cell in an inserted column (no
\* source in A) is Synthetic, written empty with an unchanged style; under
\* highlight the cell at output column 0 of that row is written with
\* f_removed_cell_modified when output column 0 has a source in A and with
\* f_equal_cell_modified when output column 0 is an inserted column.
C6_RemovedRow ==
    (pc = "finish" /\ current_tab_key \in DOMAIN icolumns) =>
        \A k \in RemovedRows :
            LET row == row_ranges_list[k]
            IN  /\ \A j \in 1..Len(column_ranges_list) :
                      LET col == column_ranges_list[j]
                      IN  /\ Cardinality(WritesAt(row[1], col[1])) = 1
                          /\ IF col[2] >= 0
                             THEN /\ CategoriesAt(row[1], col[1]) = {"RemovedStructural"}
                                  /\ \A w \in WritesAt(row[1], col[1]) :
                                        /\ CurrentTab.writes[w].value = ValueInA(row[2], col[2])
                                        /\ CurrentTab.writes[w].format \in RemovedStyles
                             ELSE /\ CategoriesAt(row[1], col[1]) = {"Synthetic"}
                                  /\ \A w \in WritesAt(row[1], col[1]) :
                                        /\ CurrentTab.writes[w].value = <<>>
                                        /\ CurrentTab.writes[w].format \in {"f_equal_cell", "f_equal_cell_modified"}
                /\ args.highlight =>
                      \A w \in WritesAt(row[1], 0) :
                          CurrentTab.writes[w].format =
                              (IF FirstColumn[2] >= 0 THEN "f_removed_cell_modified" ELSE "f_equal_cell_modified")

\* under highlight a row of A without counterpart has been written whose
\* output column 0 is an inserted column and which holds a text in another one
C6_Witness ==
    /\ pc = "finish"
    /\ current_tab_key \in DOMAIN icolumns
    /\ args.highlight
    /\ FirstColumn[2] = -1
    /\ \E k \in RemovedRows :
          /\ \E w \in WritesAt(row_ranges_list[k][1], 0) : CurrentTab.writes[w].format = "f_equal_cell_modified"
          /\ \E j \in 1..Len(column_ranges_list) :
                /\ column_ranges_list[j][2] >= 0
                /\ \E w \in WritesAt(row_ranges_list[k][1], column_ranges_list[j][1]) :
                      /\ CurrentTab.writes[w].value # <<>>
                      /\ CurrentTab.writes[w].format = "f_removed_cell_highlight"

\* ------------------------------------------------------------------ C7: the header highlighting

ChangedCategories == {"AddedStructural", "RemovedStructural", "AddedValue", "RemovedValue", "Modified"}

\* the output rows and columns of the tab that hold an Added, Removed or Modified cell
TouchedRows ==
    {CurrentTab.cells[k].row :
        k \in {j \in 1..Len(CurrentTab.cells) : CurrentTab.cells[j].category \in ChangedCategories}}

TouchedColumns ==
    {CurrentTab.cells[k].col :
        k \in {j \in 1..Len(CurrentTab.cells) : CurrentTab.cells[j].category \in ChangedCategories}}

TouchedStyles == {"f_equal_cell_modified", "f_added_cell_modified", "f_removed_cell_modified", "f_modified_cell"}

\* C7 as stated: under highlight, once every cell of the tab is processed, the
\* cell at column 0 of every row with an Added, Removed or Modified cell and the
\* cell at row 0 of every column with such a cell has been written with a
\* touched style, and no other cell has, also under noempty.
C7_HeaderHighlighting ==
    (pc = "finish" /\ args.highlight) =>
        /\ \A r \in TouchedRows :
              \E w \in WritesAt(r, 0) : CurrentTab.writes[w].format \in TouchedStyles
        /\ \A c \in TouchedColumns :
              \E w \in WritesAt(0, c) : CurrentTab.writes[w].format \in TouchedStyles
        /\ \A w \in 1..Len(CurrentTab.writes) :
              CurrentTab.writes[w].format \in TouchedStyles =>
                  \/ CurrentTab.writes[w].col = 0 /\ CurrentTab.writes[w].row \in TouchedRows
                  \/ CurrentTab.writes[w].row = 0 /\ CurrentTab.writes[w].col \in TouchedColumns

\* ------------------------------------------------------------------ C8: gray tab or filter band

\* the main loop has just finished a tab of both workbooks: o_wb[tabs_done] is
\* its output worksheet and column_ranges_list still is its column alignment
JustCompared ==
    /\ pc \in {"loop", "done"}
    /\ tabs_done >= 1
    /\ IsCommon(o_wb[tabs_done].name)

HasChangedCell(ws) == \E k \in 1..Len(ws.cells) : ws.cells[k].category \in ChangedCategories

\* C8: after compare_tab the output sheet is gray if and only if no cell was
\* classified Added, Removed or Modified; otherwise it gets the autofilter
\* exactly when autofilter and highlight are both set, on row 0 from column 0
\* to the last output column (number of column alignment entries - 1); it
\* never gets both.
C8_SheetStatus ==
    JustCompared =>
        LET ws == o_wb[tabs_done]
        IN  /\ (ws.tab_color = "gray") <=> ~HasChangedCell(ws)
            /\ ws.tab_color \in {"", "gray"}
            /\ ws.autofilter.set <=> (HasChangedCell(ws) /\ args.autofilter /\ args.highlight)
            /\ ws.autofilter.set =>
                  /\ ws.autofilter.first_row = 0
                  /\ ws.autofilter.last_row = 0
                  /\ ws.autofilter.first_col = 0
                  /\ ws.autofilter.last_col = Len(column_ranges_list) - 1
                  /\ {ws.columns[k].col : k \in 1..Len(ws.columns)} = 0..ws.autofilter.last_col
            /\ ~(ws.tab_color = "gray" /\ ws.autofilter.set)

\* a filter band over three output columns, one more than either input has
C8_Witness ==
    /\ JustCompared
    /\ o_wb[tabs_done].autofilter.set
    /\ o_wb[tabs_done].autofilter.last_col = 2
    /\ input1.sheets[o_wb[tabs_done].name].max_column = 2
    /\ input2.sheets[o_wb[tabs_done].name].max_column = 2
    /\ o_wb[tabs_done].tab_color = ""

\* ------------------------------------------------------------------ C9: order and dispatch of the sheets

\* the names of document B in B's order, then those only in document A in A's order
ExpectedOrder ==
    input2.sheetnames \o SelectSeq(input1.sheetnames, LAMBDA t : ~InSeq(t, input2.sheetnames))

\* the worksheet is the clone of i_ws in one colour and one format
IsCloneOf(ws, i_ws, colour, fmt) ==
    /\ ws.tab_color = colour
    /\ ws.cells = <<>>
    /\ Len(ws.writes) = i_ws.max_row * i_ws.max_column
    /\ \A r \in 1..i_ws.max_row, c \in 1..i_ws.max_column :
          \E k \in 1..Len(ws.writes) :
              ws.writes[k] = Write(r - 1, c - 1, ToText(i_ws.cells[<<r, c>>]), fmt)

\* C9: the output sheets are made one at a time, for the names of document B
\* in B's order and then the names only in document A in A's order, each name
\* once; a name of both documents is handled by compare_tab, a name of B only
\* is cloned as added, a name of A only is cloned as removed.
C9_SheetOrder ==
    /\ Len(o_wb) = tabs_done + (IF pc \in {"cells", "finish"} THEN 1 ELSE 0)
    /\ Len(o_wb) <= Len(ExpectedOrder)
    /\ \A n \in 1..Len(o_wb) : o_wb[n].name = ExpectedOrder[n]
    /\ pc = "done" =>
          /\ Len(o_wb) = Len(ExpectedOrder)
          /\ \A m, n \in 1..Len(o_wb) : o_wb[m].name = o_wb[n].name => m = n
          /\ {o_wb[n].name : n \in 1..Len(o_wb)} =
                {input1.sheetnames[n] : n \in 1..Len(input1.sheetnames)}
                \cup {input2.sheetnames[n] : n \in 1..Len(input2.sheetnames)}
    /\ \A n \in 1..tabs_done :
          LET t == o_wb[n].name
          IN  IF InSeq(t, input1.sheetnames) /\ InSeq(t, input2.sheetnames)
              THEN /\ o_wb[n].tab_color \in {"", "gray"}
                   /\ Len(o_wb[n].cells) >= 1
                   /\ \A k \in 1..Len(o_wb[n].writes) : o_wb[n].writes[k].format \notin {NoFormat}
              ELSE IF InSeq(t, input2.sheetnames)
              THEN IsCloneOf(o_wb[n], input2.sheets[t], "blue", "f_added")
              ELSE IsCloneOf(o_wb[n], input1.sheets[t], "red", "f_removed")

\* a run over three names: one of B only, one of both and one of A only, with
\* the common name first in A and last in B
C9_Witness ==
    /\ pc = "done"
    /\ Len(o_wb) = 3
    /\ o_wb[1].tab_color = "blue"
    /\ o_wb[2].tab_color \in {"", "gray"}
    /\ Len(o_wb[2].cells) = 1
    /\ o_wb[3].tab_color = "red"
    /\ input1.sheetnames[1] = o_wb[2].name

\* ------------------------------------------------------------------ C10: designations that name nothing

\* the designated tab names that are in neither workbook
UnknownTabs == {t \in (DOMAIN icolumns) \cup (DOMAIN irows) : ~InSeq(t, input1.sheetnames) /\ ~InSeq(t, input2.sheetnames)}

\* an index column designated for the tab lies outside both of its sheets
ColumnOutside(t) ==
    /\ t \in DOMAIN icolumns
    /\ \E n \in 1..Len(icolumns[t]) :
          column_index_from_string(icolumns[t][n]) > Max2(input1.sheets[t].max_column, input2.sheets[t].max_column)

\* an index row designated for the tab lies outside both of its sheets
RowOutside(t) ==
    /\ t \in DOMAIN irows
    /\ \E n \in 1..Len(irows[t]) :
          irows[t][n] > Max2(input1.sheets[t].max_row, input2.sheets[t].max_row)

\* C10 as stated: a designation for a tab name of neither input, or of a column
\* letter or row number outside both sheets, gets a warning, and the alignment
\* of the rows (columns) of the affected sheet is the positional one, the one
\* produced when nothing is designated.
C10_DegradesToPositional ==
    [][/\ (pc = "start" /\ pc' = "loop" /\ ~args.quiet) => UnknownTabs \subseteq warnings'
       /\ (pc = "loop" /\ pc' = "cells") =>
             LET t == current_tab_key
             IN  /\ ColumnOutside(t) =>
                       /\ row_ranges_list' = Positional(Max2(input1.sheets[t].max_row, input2.sheets[t].max_row))
                       /\ ~args.quiet => t \in warnings'
                 /\ RowOutside(t) =>
                       /\ column_ranges_list' =
                             Positional(Max2(input1.sheets[t].max_column, input2.sheets[t].max_column))
                       /\ ~args.quiet => t \in warnings']_vars

\* ------------------------------------------------------------------ C11: an order-preserving merge

\* the entry of return_indexes with output index k
EntryAt(k) == return_indexes[CHOOSE e \in 1..Len(return_indexes) : return_indexes[e][1] = k]

IsMatched(entry) == entry[2] >= 0 /\ entry[3] >= 0

IsDeletion(entry) == entry[2] >= 0 /\ entry[3] = -1

IsInsertion(entry) == entry[2] = -1 /\ entry[3] >= 0

\* C11: read by increasing output index, the indexes of list1 that are present
\* are strictly increasing and so are those of list2; an entry carries both an
\* index i of list1 and an index j of list2 only if list1[i] = list2[j]; and in
\* every run of unmatched entries all deletions come before all insertions.
C11_OrderPreservingMerge ==
    pc = "aligned" =>
        LET n == Len(return_indexes)
        IN  /\ \A p, q \in 0..(n - 1) :
                  p < q =>
                      /\ (EntryAt(p)[2] >= 0 /\ EntryAt(q)[2] >= 0) => EntryAt(p)[2] < EntryAt(q)[2]
                      /\ (EntryAt(p)[3] >= 0 /\ EntryAt(q)[3] >= 0) => EntryAt(p)[3] < EntryAt(q)[3]
            /\ \A k \in 0..(n - 1) :
                  IsMatched(EntryAt(k)) => list1[EntryAt(k)[2] + 1] = list2[EntryAt(k)[3] + 1]
            /\ \A k \in 0..(n - 2) :
                  ~(IsInsertion(EntryAt(k)) /\ IsDeletion(EntryAt(k + 1)))

\* a replaced region of a deletion and an insertion between two matched pairs
C11_Witness ==
    /\ pc = "aligned"
    /\ \E k \in 1..(Len(return_indexes) - 3) :
          /\ IsMatched(EntryAt(k - 1))
          /\ IsDeletion(EntryAt(k))
          /\ IsInsertion(EntryAt(k + 1))
          /\ IsMatched(EntryAt(k + 2))
    /\ \E i \in 1..Len(list1), j \in 1..Len(list2) : i # j /\ list1[i] = list2[j]

\* ------------------------------------------------------------------ C12: the positional fallback

\* the alignment pairs element i of either side for i below both n and m and
\* has the elements beyond the shorter side as trailing entries of the longer
\* side alone; no entry holds an index at or beyond n (for A) or m (for B)
IsPositionalWithTrailing(ranges, n, m) ==
    /\ Len(ranges) = Max2(n, m)
    /\ \A i \in 0..(Max2(n, m) - 1) :
          \E e \in 1..Len(ranges) :
              ranges[e] = <<i, IF i < n THEN i ELSE -1, IF i < m THEN i ELSE -1>>

\* C12 as stated: without index columns (index rows) designated for the sheet,
\* row_ranges (column_ranges) pairs element i of A with element i of B for every
\* i below min(n, m), the elements beyond the shorter side are trailing
\* insertions (A index absent) or trailing deletions (B index absent), and no
\* entry holds an index at or beyond the row (column) count of its source.
C12_PositionalFallback ==
    pc \in {"cells", "finish"} =>
        /\ current_tab_key \notin DOMAIN icolumns =>
              IsPositionalWithTrailing(row_ranges_list,
                                       input1.sheets[current_tab_key].max_row,
                                       input2.sheets[current_tab_key].max_row)
        /\ current_tab_key \notin DOMAIN irows =>
              IsPositionalWithTrailing(column_ranges_list,
                                       input1.sheets[current_tab_key].max_column,
                                       input2.sheets[current_tab_key].max_column)

====
